---- MODULE Spec2Model ----
(***************************************************************************)
(* Model of cli_bot.py: the phonebook command loop (main), its handlers    *)
(* (add_contact, change_contact, delete_contact, search_contact,           *)
(* show_phonebook), the input_error decorator and the load/save bracket of *)
(* the __main__ block.                                                     *)
(*                                                                         *)
(* Python strings are sequences of one-character strings, so that          *)
(* str.lower(), the substring test `in` and string ordering are computed   *)
(* and not assumed.  A contact is the dict {"name": ..., "phone": ...}; the*)
(* phonebook is the ordered collection of contacts the handlers iterate.   *)
(***************************************************************************)
EXTENDS Integers, Sequences, FiniteSets, TLC

\* Largest number of contacts in a phonebook file at first startup.
MaxRecords == 2

----------------------------------------------------------------------------
\* Python str primitives

Digits == <<"0", "1", "2", "3", "4", "5", "6", "7", "8", "9">>
Uppers == <<"A", "B", "C", "D", "E", "F", "G", "H", "I", "J", "K", "L", "M",
            "N", "O", "P", "Q", "R", "S", "T", "U", "V", "W", "X", "Y", "Z">>
Lowers == <<"a", "b", "c", "d", "e", "f", "g", "h", "i", "j", "k", "l", "m",
            "n", "o", "p", "q", "r", "s", "t", "u", "v", "w", "x", "y", "z">>

Range(s) == {s[i] : i \in DOMAIN s}

DigitChars == Range(Digits)
UpperChars == Range(Uppers)
LowerChars == Range(Lowers)

IndexOf(s, c) == CHOOSE i \in DOMAIN s : s[i] = c

\* ord(c) for the characters the inputs use
Ord(c) ==
    IF c \in DigitChars THEN 47 + IndexOf(Digits, c)
    ELSE IF c \in UpperChars THEN 64 + IndexOf(Uppers, c)
    ELSE IF c \in LowerChars THEN 96 + IndexOf(Lowers, c)
    ELSE IF c = "+" THEN 43
    ELSE 45

\* str.lower()
LowerChar(c) == IF c \in UpperChars THEN Lowers[IndexOf(Uppers, c)] ELSE c

Lower(s) == [i \in DOMAIN s |-> LowerChar(s[i])]

\* sub in s
Contains(sub, s) ==
    \E k \in 0..(Len(s) - Len(sub)) : SubSeq(s, k + 1, k + Len(sub)) = sub

\* a < b on str: code point order, a proper prefix is smaller
StrLess(a, b) ==
    \E k \in 1..Len(b) :
        /\ \A j \in 1..(k - 1) : j <= Len(a) /\ a[j] = b[j]
        /\ \/ k > Len(a)
           \/ k <= Len(a) /\ Ord(a[k]) < Ord(b[k])

----------------------------------------------------------------------------
\* The strings of the inputs

sJohn == <<"J", "o", "h", "n">>
sjohn == <<"j", "o", "h", "n">>
sAmy == <<"A", "m", "y">>
samy == <<"a", "m", "y">>
sBob == <<"B", "o", "b">>
sZed == <<"z", "e", "d">>
sJo == <<"j", "O">>
s237 == <<"2", "3", "7">>
sAll == <<"a", "l", "l">>

vAdd == <<"a", "d", "d">>
vChange == <<"c", "h", "a", "n", "g", "e">>
vDelete == <<"d", "e", "l", "e", "t", "e">>
vDELETE == <<"D", "E", "L", "E", "T", "E">>
vSearch == <<"s", "e", "a", "r", "c", "h">>
vShow == <<"s", "h", "o", "w">>
vHello == <<"h", "e", "l", "l", "o">>
vClose == <<"c", "l", "o", "s", "e">>
vExit == <<"e", "x", "i", "t">>
vEXIT == <<"E", "x", "i", "t">>
vList == <<"l", "i", "s", "t">>

\* "+380992572719", "0552-237-519", "0987654321", "12345"
pJohn == <<"+", "3", "8", "0", "9", "9", "2", "5", "7", "2", "7", "1", "9">>
pDash == <<"0", "5", "5", "2", "-", "2", "3", "7", "-", "5", "1", "9">>
pLocal == <<"0", "9", "8", "7", "6", "5", "4", "3", "2", "1">>
pBad == <<"1", "2", "3", "4", "5">>

----------------------------------------------------------------------------
\* Contacts, printed lines, handler results

Contact(name, phone) == [name |-> name, phone |-> phone]

OutLine(kind, name, phone) == [kind |-> kind, name |-> name, phone |-> phone]

Msg(kind) == OutLine(kind, <<>>, <<>>)

\* What a handler leaves behind: the phonebook, the exception that left it
\* (raised), the one input_error swallowed (caught), the failure it stands for
\* (err) and the lines it printed (out).
Result(pb, raised, err, out) ==
    [pb |-> pb, raised |-> raised, caught |-> "none", err |-> err, out |-> out]

\* any(contact["name"].lower() == name.lower() for contact in phonebook)
HasName(phonebook, name) ==
    \E i \in DOMAIN phonebook : Lower(phonebook[i].name) = Lower(name)

\* the first contact the `for ... if ...: break` loops stop at
FirstMatch(phonebook, name) ==
    CHOOSE i \in DOMAIN phonebook :
        /\ Lower(phonebook[i].name) = Lower(name)
        /\ \A j \in 1..(i - 1) : Lower(phonebook[j].name) # Lower(name)

----------------------------------------------------------------------------
\* normalize_phone (module normalize_phone): separators are stripped, then
\* 0 + 9 digits or +380 + 9 digits is accepted and written as +380XXXXXXXXX.

RECURSIVE StripSeparators(_)
StripSeparators(raw) ==
    IF raw = <<>> THEN <<>>
    ELSE IF Head(raw) = "-" THEN StripSeparators(Tail(raw))
    ELSE <<Head(raw)>> \o StripSeparators(Tail(raw))

AllDigits(s) == \A i \in DOMAIN s : s[i] \in DigitChars

normalize_phone(raw) ==
    LET d == StripSeparators(raw) IN
    IF Len(d) = 10 /\ d[1] = "0" /\ AllDigits(d)
    THEN [ok |-> TRUE, phone |-> <<"+", "3", "8">> \o d]
    ELSE IF Len(d) = 13 /\ SubSeq(d, 1, 4) = <<"+", "3", "8", "0">>
            /\ AllDigits(SubSeq(d, 5, 13))
    THEN [ok |-> TRUE, phone |-> d]
    ELSE [ok |-> FALSE, phone |-> <<>>]

\* Record(name, phones, birthday) (module cli_bot_classes) as add_contact
\* calls it: main hands it the whole phonebook as `phones`.  With no phones
\* there is nothing to validate; with contacts in place of phone strings the
\* constructor may accept them, reject them as invalid phones (ValueError) or
\* fail on their type.
RecordOutcomes(phones) ==
    IF phones = <<>> THEN {"ok"} ELSE {"ok", "ValueError", "TypeError"}

\* AddressBook(data) (module cli_bot_classes): the container of the loaded contacts
AddressBook(data) == data

----------------------------------------------------------------------------
\* cli_bot.py

\* The exceptions the input_error wrapper swallows; it returns the message,
\* which main never prints.
input_error(r) ==
    IF r.raised \in {"KeyError", "ValueError", "IndexError"}
    THEN [r EXCEPT !.caught = r.raised, !.raised = "none"]
    ELSE r

\* add_contact that appends the new contact to the collection it was handed,
\* without the test for a contact of that name
add_contact_appends(name, phonebook, phones, rec) ==
    input_error(Result(Append(phones, Contact(name, phonebook)), "none", "none", <<>>))

\* add_contact(name, phonebook, phones): main passes command[2], a str, as
\* `phonebook` and the phonebook as `phones`, so `name in phonebook` is a
\* substring test and phonebook.add_record is looked up on a str.
add_contact(name, phonebook, phones, rec) ==
    input_error(
        IF Contains(name, phonebook)
        THEN Result(phones, "ValueError", "DuplicateContact", <<>>)
        ELSE IF rec # "ok"
        THEN Result(phones, rec, IF rec = "ValueError" THEN "InvalidPhoneFormat" ELSE "none", <<>>)
        ELSE Result(phones, "AttributeError", "none", <<>>))

\* change_contact whose loop assigns the phone to every contact
change_contact_every(name, new_phone, phonebook) ==
    input_error(
        IF ~HasName(phonebook, name)
        THEN Result(phonebook, "ValueError", "ContactNotFound", <<>>)
        ELSE LET np == normalize_phone(new_phone) IN
             IF ~np.ok
             THEN Result(phonebook, "ValueError", "InvalidPhoneFormat", <<>>)
             ELSE Result([i \in DOMAIN phonebook |-> [phonebook[i] EXCEPT !.phone = np.phone]],
                         "none", "none", <<OutLine("updated", name, np.phone)>>))

change_contact(name, new_phone, phonebook) ==
    input_error(
        IF ~HasName(phonebook, name)
        THEN Result(phonebook, "ValueError", "ContactNotFound", <<>>)
        ELSE LET np == normalize_phone(new_phone) IN
             IF ~np.ok
             THEN Result(phonebook, "ValueError", "InvalidPhoneFormat", <<>>)
             ELSE Result([phonebook EXCEPT ![FirstMatch(phonebook, name)].phone = np.phone],
                         "none", "none", <<OutLine("updated", name, np.phone)>>))

\* delete_contact whose removal loop compares the names as typed
delete_contact_exact_case(name, phonebook) ==
    input_error(
        IF ~HasName(phonebook, name)
        THEN Result(phonebook, "ValueError", "ContactNotFound", <<>>)
        ELSE Result(SelectSeq(phonebook, LAMBDA contact : contact.name # name),
                    "none", "none", <<>>))

delete_contact(name, phonebook) ==
    input_error(
        IF ~HasName(phonebook, name)
        THEN Result(phonebook, "ValueError", "ContactNotFound", <<>>)
        ELSE LET i == FirstMatch(phonebook, name) IN
             Result(SubSeq(phonebook, 1, i - 1) \o SubSeq(phonebook, i + 1, Len(phonebook)),
                    "none", "none", <<OutLine("deleted", name, <<>>)>>))

\* the loop of search_contact comparing names without lower()
RECURSIVE search_loop_exact_case(_, _)
search_loop_exact_case(pattern, phonebook) ==
    IF phonebook = <<>> THEN <<>>
    ELSE LET contact == Head(phonebook) IN
         (IF Contains(pattern, contact.name) \/ Contains(pattern, contact.phone)
          THEN <<OutLine("contact", contact.name, contact.phone)>>
          ELSE <<>>) \o search_loop_exact_case(pattern, Tail(phonebook))

\* the loop of search_contact: one printed line per matching contact
RECURSIVE search_loop(_, _)
search_loop(pattern, phonebook) ==
    IF phonebook = <<>> THEN <<>>
    ELSE LET contact == Head(phonebook) IN
         (IF Contains(Lower(pattern), Lower(contact.name)) \/ Contains(pattern, contact.phone)
          THEN <<OutLine("contact", contact.name, contact.phone)>>
          ELSE <<>>) \o search_loop(pattern, Tail(phonebook))

\* search_contact carries no @input_error
search_contact(pattern, phonebook) ==
    LET lines == search_loop(pattern, phonebook) IN
    IF lines = <<>>
    THEN Result(phonebook, "ValueError", "NoMatch", <<>>)
    ELSE Result(phonebook, "none", "none", lines)

\* sorted(phonebook, key=name): a stable sort on code point order
InsertByName(sortedpb, contact) ==
    LET k == Cardinality({i \in DOMAIN sortedpb : ~StrLess(contact.name, sortedpb[i].name)}) IN
    SubSeq(sortedpb, 1, k) \o <<contact>> \o SubSeq(sortedpb, k + 1, Len(sortedpb))

RECURSIVE SortedByName(_)
SortedByName(phonebook) ==
    IF phonebook = <<>> THEN <<>>
    ELSE InsertByName(SortedByName(SubSeq(phonebook, 1, Len(phonebook) - 1)),
                      phonebook[Len(phonebook)])

ContactLines(phonebook) ==
    [i \in DOMAIN phonebook |-> OutLine("contact", phonebook[i].name, phonebook[i].phone)]

\* show_phonebook sorting the caller's phonebook in place (phonebook.sort)
show_phonebook_in_place(phonebook, sorted_) ==
    Result(IF sorted_ THEN SortedByName(phonebook) ELSE phonebook, "none", "none",
           ContactLines(IF sorted_ THEN SortedByName(phonebook) ELSE phonebook))

show_phonebook(phonebook, sorted_) ==
    Result(phonebook, "none", "none",
           ContactLines(IF sorted_ THEN SortedByName(phonebook) ELSE phonebook))

\* the arity tests with add and change testing for too few tokens only
BadArity_too_few(verb, n) ==
    IF verb \in {vAdd, vChange} THEN n < 3
    ELSE IF verb \in {vDelete, vSearch} THEN n # 2
    ELSE IF verb \in {vShow, sAll} THEN ~(n = 1 \/ n = 2)
    ELSE FALSE

\* The arity tests of main: add and change want 3 tokens, delete and search 2,
\* show/all 1 or 2; hello, close and exit are not tested.
BadArity(verb, n) ==
    IF verb \in {vAdd, vChange} THEN n # 3
    ELSE IF verb \in {vDelete, vSearch} THEN n # 2
    ELSE IF verb \in {vShow, sAll} THEN ~(n = 1 \/ n = 2)
    ELSE FALSE

Usage(verb) ==
    <<Msg("invalid"), OutLine("usage", IF verb = sAll THEN vShow ELSE verb, <<>>)>>

\* One iteration of the while loop of main on the tokens of the line read.
\* ctl is "loop" (next iteration), "break" (close/exit) or "raise".
Ctl(r, c) == [pb |-> r.pb, raised |-> r.raised, caught |-> r.caught, err |-> r.err,
              out |-> r.out, ctl |-> IF r.raised # "none" THEN "raise" ELSE c]

main_iteration(command, phonebook, rec) ==
    IF Len(command) = 0
    THEN Ctl(Result(phonebook, "IndexError", "none", <<>>), "loop")
    ELSE LET verb == Lower(command[1])
             n == Len(command) IN
         IF verb \in {vClose, vExit}
         THEN Ctl(Result(phonebook, "none", "none", <<Msg("goodbye")>>), "break")
         ELSE IF verb = vHello
         THEN Ctl(Result(phonebook, "none", "none", <<Msg("hello")>>), "loop")
         ELSE IF verb \in {vAdd, vChange, vDelete, vSearch, vShow, sAll} /\ BadArity(verb, n)
         THEN Ctl(Result(phonebook, "none", "none", Usage(verb)), "loop")
         ELSE IF verb = vAdd
         THEN Ctl(add_contact(command[2], command[3], phonebook, rec), "loop")
         ELSE IF verb = vChange
         THEN Ctl(change_contact(command[2], command[3], phonebook), "loop")
         ELSE IF verb = vDelete
         THEN Ctl(delete_contact(command[2], phonebook), "loop")
         ELSE IF verb = vSearch
         THEN Ctl(search_contact(command[2], phonebook), "loop")
         ELSE IF verb \in {vShow, sAll}
         THEN IF n = 1 \/ command[2] = sAll
              THEN Ctl(show_phonebook(phonebook, TRUE), "loop")
              ELSE Ctl(search_contact(command[2], phonebook), "loop")
         ELSE Ctl(Result(phonebook, "none", "none", <<Msg("invalid"), Msg("available")>>), "loop")

\* The phonebook file: absent, or a JSON array of contacts
load_phonebook(f) == IF f.exists THEN AddressBook(f.data) ELSE AddressBook(<<>>)

save_phonebook(phonebook) == [exists |-> TRUE, data |-> phonebook]

----------------------------------------------------------------------------
\* The process: load_phonebook, main, save_phonebook

VARIABLES
    pc,        \* "start", "Running", "Terminated", "Saved", "Crashed", "call"
    file,      \* the phonebook file
    store,     \* the phonebook of main
    last,      \* the line of the last iteration and how it ended
    printed,   \* the lines the last step printed
    before,    \* the phonebook as the last step found it
    deleted,   \* the name the iteration before the last one deleted, or <<>>
    shown      \* the listing the last step made: "sorted", "insertion" or "none"

vars == <<pc, file, store, last, printed, before, deleted, shown>>

NoCommand == [line |-> <<>>, raised |-> "none", caught |-> "none", err |-> "none", ctl |-> "none"]

\* The lines typed at the prompt, as input().strip().split() leaves them
Lines ==
    { <<>>,
      <<vHello>>, <<vHello, sJohn>>,
      <<vClose>>, <<vEXIT>>, <<vExit, sJohn>>,
      <<vAdd, sJohn, pJohn>>, <<vAdd, sjohn, pDash>>, <<vAdd, sZed, pLocal>>,
      <<vAdd, s237, pDash>>, <<vAdd, sJohn>>, <<vAdd, sJohn, pJohn, sAmy>>,
      <<vChange, sjohn, pDash>>, <<vChange, sAmy, pLocal>>, <<vChange, sBob, pBad>>,
      <<vChange, sZed, pLocal>>, <<vChange, sBob>>,
      <<vDelete, sjohn>>, <<vDELETE, sAmy>>, <<vDelete, sZed>>, <<vDelete>>,
      <<vDelete, sJohn, sAmy>>,
      <<vSearch, sJo>>, <<vSearch, s237>>, <<vSearch, sZed>>, <<vSearch>>,
      <<vSearch, sJo, sJo>>,
      <<vShow>>, <<vShow, sAll>>, <<sAll>>, <<vShow, sJo>>, <<vShow, sZed>>,
      <<vShow, sJo, sJo>>, <<sAll, sJo, sJo>>,
      <<vList>> }

Verb(line) == IF line = <<>> THEN <<>> ELSE Lower(line[1])

KnownVerbs == {vHello, vAdd, vChange, vDelete, vSearch, vShow, sAll, vClose, vExit}

\* Phonebooks: no two contacts with the same name, letter case aside
UniqueNames(phonebook) ==
    \A i, j \in DOMAIN phonebook :
        Lower(phonebook[i].name) = Lower(phonebook[j].name) => i = j

PhonebooksOf(contacts, n) ==
    {pb \in UNION {[1..k -> contacts] : k \in 0..n} : UniqueNames(pb)}

FileContacts ==
    { Contact(sJohn, pJohn),
      Contact(sAmy, normalize_phone(pDash).phone),
      Contact(sBob, normalize_phone(pLocal).phone) }

ShowContacts ==
    FileContacts \cup {Contact(sZed, pJohn), Contact(samy, pJohn), Contact(sjohn, pJohn)}

Init ==
    /\ pc = "start"
    /\ file \in {[exists |-> FALSE, data |-> <<>>]}
                \cup {[exists |-> TRUE, data |-> pb] : pb \in PhonebooksOf(FileContacts, MaxRecords)}
    /\ store = <<>>
    /\ last = NoCommand
    /\ printed = <<>>
    /\ before = <<>>
    /\ deleted = <<>>
    /\ shown = "none"

\* phonebook = load_phonebook(), then the welcome line of main
Load ==
    /\ pc = "start"
    /\ store' = load_phonebook(file)
    /\ before' = store'
    /\ pc' = "Running"
    /\ printed' = <<Msg("welcome")>>
    /\ last' = NoCommand
    /\ deleted' = <<>>
    /\ shown' = "none"
    /\ UNCHANGED file

\* One iteration of the loop of main on `line`
Iterate(line, rec) ==
    LET r == main_iteration(line, store, rec) IN
    /\ pc = "Running"
    /\ store' = r.pb
    /\ before' = store
    /\ printed' = r.out
    /\ last' = [line |-> line, raised |-> r.raised, caught |-> r.caught, err |-> r.err,
                ctl |-> r.ctl]
    /\ pc' = CASE r.ctl = "raise" -> "Crashed"
               [] r.ctl = "break" -> "Terminated"
               [] OTHER -> "Running"
    /\ deleted' = IF Verb(last.line) = vDelete /\ Len(last.line) = 2 /\ last.err = "none"
                  THEN last.line[2] ELSE <<>>
    /\ shown' = IF Verb(line) \in {vShow, sAll} /\ (Len(line) = 1 \/ (Len(line) = 2 /\ line[2] = sAll))
                THEN "sorted" ELSE "none"
    /\ UNCHANGED file

EmptyLine == \E line \in Lines : line = <<>> /\ Iterate(line, "ok")

Close == \E line \in Lines : Verb(line) \in {vClose, vExit} /\ Iterate(line, "ok")

Hello == \E line \in Lines : Verb(line) = vHello /\ Iterate(line, "ok")

Add == \E line \in Lines : Verb(line) = vAdd /\ \E rec \in RecordOutcomes(store) : Iterate(line, rec)

Change == \E line \in Lines : Verb(line) = vChange /\ Iterate(line, "ok")

Delete == \E line \in Lines : Verb(line) = vDelete /\ Iterate(line, "ok")

Search == \E line \in Lines : Verb(line) = vSearch /\ Iterate(line, "ok")

Show == \E line \in Lines : Verb(line) \in {vShow, sAll} /\ Iterate(line, "ok")

Unknown == \E line \in Lines : line # <<>> /\ Verb(line) \notin KnownVerbs /\ Iterate(line, "ok")

\* save_phonebook(phonebook) once main has returned
Save ==
    /\ pc = "Terminated"
    /\ file' = save_phonebook(store)
    /\ pc' = "Saved"
    /\ UNCHANGED <<store, last, printed, before, deleted, shown>>

\* The next run of the program, on the file the last one left
Rerun ==
    /\ pc \in {"Saved", "Crashed"}
    /\ pc' = "start"
    /\ store' = <<>>
    /\ before' = <<>>
    /\ last' = NoCommand
    /\ printed' = <<>>
    /\ deleted' = <<>>
    /\ shown' = "none"
    /\ UNCHANGED file

Next ==
    \/ Load
    \/ EmptyLine
    \/ Close
    \/ Hello
    \/ Add
    \/ Change
    \/ Delete
    \/ Search
    \/ Show
    \/ Unknown
    \/ Save
    \/ Rerun

Spec == Init /\ [][Next]_vars

\* show_phonebook called on a phonebook, with either value of sorted_
InitShow ==
    /\ pc = "call"
    /\ store \in PhonebooksOf(ShowContacts, MaxRecords + 1)
    /\ file = [exists |-> FALSE, data |-> <<>>]
    /\ last = NoCommand
    /\ printed = <<>>
    /\ before = store
    /\ deleted = <<>>
    /\ shown = "none"

ShowCall(sorted_) ==
    LET r == show_phonebook(store, sorted_) IN
    /\ pc = "call"
    /\ store' = r.pb
    /\ before' = store
    /\ printed' = r.out
    /\ shown' = IF sorted_ THEN "sorted" ELSE "insertion"
    /\ UNCHANGED <<pc, file, last, deleted>>

ShowSorted == ShowCall(TRUE)

ShowInsertion == ShowCall(FALSE)

NextShow == ShowSorted \/ ShowInsertion

SpecShow == InitShow /\ [][NextShow]_vars

----------------------------------------------------------------------------
\* Properties

Ran == last.ctl # "none"

LastVerb == Verb(last.line)

LastArgs == Len(last.line)

StoreFailures == {"DuplicateContact", "ContactNotFound", "InvalidPhoneFormat", "NoMatch"}

UsagePrinted == \E i \in DOMAIN printed : printed[i].kind = "usage"

InvalidPrinted == \E i \in DOMAIN printed : printed[i].kind = "invalid"

\* C1: every failure of a store operation (duplicate contact, contact not
\* found, invalid phone, no match on search or show <pattern>) is caught at
\* the dispatch boundary and the loop is still Running after it.
C1_FailuresCaught ==
    (Ran /\ last.err \in StoreFailures) => (last.raised = "none" /\ pc = "Running")

C3_AddThenFind ==
    (LastVerb = vAdd /\ LastArgs = 3) =>
        IF ~HasName(before, last.line[2])
        THEN /\ last.err = "none" /\ pc = "Running"
             /\ \E i \in DOMAIN store :
                    /\ Lower(store[i].name) = Lower(last.line[2])
                    /\ store[i].phone \in {last.line[3], normalize_phone(last.line[3]).phone}
        ELSE last.err = "DuplicateContact" /\ store = before

\* C4: delete <name> removes the contact of that name (letter case aside),
\* and only it, so that a change or delete of that name right after fails
\* with ContactNotFound; with no such contact delete fails with
\* ContactNotFound and removes nothing.
C4_DeleteRemoves ==
    /\ (LastVerb = vDelete /\ LastArgs = 2) =>
           IF HasName(before, last.line[2])
           THEN /\ last.err = "none" /\ pc = "Running"
                /\ ~HasName(store, last.line[2])
                /\ Len(store) = Len(before) - 1
                /\ \A i \in DOMAIN before :
                       Lower(before[i].name) # Lower(last.line[2])
                           => \E j \in DOMAIN store : store[j] = before[i]
           ELSE last.err = "ContactNotFound" /\ store = before /\ pc = "Running"
    /\ (deleted # <<>> /\ ((LastVerb = vChange /\ LastArgs = 3) \/ (LastVerb = vDelete /\ LastArgs = 2))
          /\ Lower(last.line[2]) = Lower(deleted))
           => (last.err = "ContactNotFound" /\ store = before)

C4_Witness ==
    /\ deleted # <<>>
    /\ LastVerb = vChange /\ LastArgs = 3
    /\ Lower(last.line[2]) = Lower(deleted)
    /\ last.err = "ContactNotFound"
    /\ store # <<>>

\* C5: change <name> <phone> on an existing contact sets that contact's phone
\* to the normalized phone and leaves every name, every other phone and the
\* number and order of contacts as they were; with the name absent
\* (ContactNotFound) or the phone rejected (InvalidPhoneFormat) nothing changes.
C5_ChangeExactlyOne ==
    (LastVerb = vChange /\ LastArgs = 3) =>
        LET name == last.line[2]
            np == normalize_phone(last.line[3]) IN
        IF ~HasName(before, name)
        THEN last.err = "ContactNotFound" /\ store = before
        ELSE IF ~np.ok
        THEN last.err = "InvalidPhoneFormat" /\ store = before
        ELSE /\ last.err = "none"
             /\ Len(store) = Len(before)
             /\ \A i \in DOMAIN before :
                    /\ store[i].name = before[i].name
                    /\ store[i].phone = IF Lower(before[i].name) = Lower(name)
                                        THEN np.phone ELSE before[i].phone

C5_Witness ==
    /\ LastVerb = vChange /\ LastArgs = 3
    /\ last.err = "none"
    /\ Len(store) >= 2
    /\ store # before
    /\ last.line[3] # normalize_phone(last.line[3]).phone

\* The arity the command table gives each verb
TableArityOK(verb, n) ==
    IF verb \in {vAdd, vChange} THEN n = 3
    ELSE IF verb \in {vDelete, vSearch} THEN n = 2
    ELSE IF verb \in {vShow, sAll} THEN n \in {1, 2}
    ELSE n = 1

ArityRefused == UsagePrinted /\ last.err = "none" /\ store = before /\ pc = "Running"

\* C6 as stated: for every recognized verb, hello and close/exit included, a
\* line whose token count does not match the verb's arity prints a usage
\* message, calls no store operation, changes nothing and the loop goes on.
C6_EveryVerbArityChecked ==
    (Ran /\ LastVerb \in KnownVerbs /\ ~TableArityOK(LastVerb, LastArgs)) => ArityRefused

\* C6 as amended: for add, change, delete, search and show/all a line whose
\* token count does not match prints a usage message, calls no store
\* operation, changes nothing and the loop goes on; hello and close/exit
\* ignore further tokens: hello greets, close/exit ends the loop.
C6_StoreVerbsArityChecked ==
    /\ (Ran /\ LastVerb \in {vAdd, vChange, vDelete, vSearch, vShow, sAll}
            /\ ~TableArityOK(LastVerb, LastArgs)) => ArityRefused
    /\ (Ran /\ LastVerb = vHello) =>
           (printed = <<Msg("hello")>> /\ store = before /\ pc = "Running")
    /\ (Ran /\ LastVerb \in {vClose, vExit}) =>
           (pc \in {"Terminated", "Saved"} /\ store = before)

C6_Witness ==
    /\ LastVerb = vAdd /\ LastArgs = 4
    /\ ArityRefused
    /\ store # <<>>

\* C7: when the process has ended, the file holds the phonebook as it stood
\* when the loop ended, so the next run loads it.
C7_FileHoldsStoreAtShutdown ==
    pc \in {"Saved", "Crashed"} => load_phonebook(file) = store

SearchMatches(pattern, contact) ==
    \/ \E k \in 0..(Len(contact.name) - Len(pattern)) :
           \A j \in 1..Len(pattern) :
               LowerChar(contact.name[k + j]) = LowerChar(pattern[j])
    \/ \E k \in 0..(Len(contact.phone) - Len(pattern)) :
           \A j \in 1..Len(pattern) : contact.phone[k + j] = pattern[j]

LastIsSearch ==
    \/ LastVerb = vSearch /\ LastArgs = 2
    \/ LastVerb \in {vShow, sAll} /\ LastArgs = 2 /\ last.line[2] # sAll

\* C8: search reports every contact whose name contains the pattern (letter
\* case aside) or whose phone contains it, once each and no other contact,
\* leaves the phonebook as it was, and fails with NoMatch exactly when no
\* contact matches.
C8_SearchExact ==
    LastIsSearch =>
        LET hits == {i \in DOMAIN before : SearchMatches(last.line[2], before[i])} IN
        /\ store = before
        /\ (last.err = "NoMatch") <=> (hits = {})
        /\ Len(printed) = Cardinality(hits)
        /\ \A i \in hits :
               \E j \in DOMAIN printed :
                   printed[j] = OutLine("contact", before[i].name, before[i].phone)

C8_Witness ==
    /\ LastVerb = vSearch /\ LastArgs = 2
    /\ last.line[2] = sJo
    /\ Len(printed) = 1
    /\ Len(store) >= 2

\* C9: a listing prints every contact exactly once, in name order when
\* sorted and in insertion order when not, and leaves the phonebook and its
\* order as they were.
C9_ListingOrder ==
    (shown # "none") =>
        /\ store = before
        /\ Len(printed) = Len(store)
        /\ \A i \in DOMAIN store :
               Cardinality({j \in DOMAIN printed :
                   printed[j] = OutLine("contact", store[i].name, store[i].phone)}) = 1
        /\ shown = "sorted" =>
               \A j, k \in DOMAIN printed :
                   j < k => ~StrLess(printed[k].name, printed[j].name)
        /\ shown = "insertion" =>
               \A i \in DOMAIN store : printed[i].name = store[i].name

C9_Witness ==
    /\ shown = "sorted"
    /\ Len(store) = 2
    /\ store[1].name = sBob /\ store[2].name = sAmy
    /\ printed[1].name = sAmy /\ printed[2].name = sBob

\* C10: a line that is empty or whose verb is unknown is handled within its
\* iteration: the phonebook is unchanged, an invalid-command message is
\* printed and the loop is Running for the next line.
C10_EveryLineHandled ==
    (Ran /\ (last.line = <<>> \/ LastVerb \notin KnownVerbs)) =>
        (store = before /\ InvalidPrinted /\ pc = "Running")

====
